---------------------------- MODULE Spec2Model ----------------------------
(***************************************************************************)
(* SpotCloud (src/main.py): the SoundCloud playlist resolver               *)
(* get_soundcloud_queries with its three-tier, two-mode fallback ladder,   *)
(* the command builder, and the GUI worker pipeline (validate_and_go,      *)
(* run_spotdl, _do_spotify, _do_soundcloud, _stream, log, poll).           *)
(*                                                                         *)
(* Python strings are TLA+ strings (TLC evaluates Len, SubSeq and \o on    *)
(* them).  An optional value (None, or a missing dict key) is the empty    *)
(* tuple <<>>; a present value v is <<v>>.                                 *)
(***************************************************************************)
EXTENDS Naturals, Sequences, FiniteSets

(***************************************************************************)
(* Bounds of the model.                                                    *)
(***************************************************************************)
\* longest "entries" list a backend reports
MaxEntries == 2
\* most Download clicks in one session
MaxClicks == 2
\* most output lines one download subprocess prints
MaxLines == 1

(***************************************************************************)
(* String helpers: str.strip, str.split(sep)[0], str.startswith, `in`,     *)
(* str.join.                                                               *)
(***************************************************************************)
Whitespace == {" ", "\t", "\n", "\r"}

\* The scans below walk an index over the string: s is handed on unchanged.
\* s from its first non-whitespace character at or after position i
RECURSIVE lstrip_from(_, _)
lstrip_from(s, i) ==
    IF i <= Len(s) /\ SubSeq(s, i, i) \in Whitespace
    THEN lstrip_from(s, i + 1)
    ELSE SubSeq(s, i, Len(s))

lstrip(s) == lstrip_from(s, 1)

\* s up to its last non-whitespace character at or before position i
RECURSIVE rstrip_to(_, _)
rstrip_to(s, i) ==
    IF i >= 1 /\ SubSeq(s, i, i) \in Whitespace
    THEN rstrip_to(s, i - 1)
    ELSE SubSeq(s, 1, i)

rstrip(s) == rstrip_to(s, Len(s))

strip(s) == rstrip(lstrip(s))

\* s.split(sep)[0] for a one-character sep: the text before the first sep
RECURSIVE split_first_from(_, _, _)
split_first_from(s, sep, i) ==
    IF i > Len(s) THEN s
    ELSE IF SubSeq(s, i, i) = sep THEN SubSeq(s, 1, i - 1)
    ELSE split_first_from(s, sep, i + 1)

split_first(s, sep) == split_first_from(s, sep, 1)

startswith(s, p) == Len(s) >= Len(p) /\ SubSeq(s, 1, Len(p)) = p

\* p in s
contains(s, p) ==
    \E i \in 1..(Len(s) + 1) :
        i + Len(p) - 1 <= Len(s) /\ SubSeq(s, i, i + Len(p) - 1) = p

\* sep.join(xs)
RECURSIVE join_from(_, _, _)
join_from(sep, xs, i) ==
    IF i > Len(xs) THEN ""
    ELSE IF i = Len(xs) THEN xs[i]
    ELSE xs[i] \o sep \o join_from(sep, xs, i + 1)

join(sep, xs) == join_from(sep, xs, 1)

\* `x or ""` for an optional string
or_empty(opt) == IF opt = <<>> THEN "" ELSE opt[1]

(***************************************************************************)
(* Helpers of src/main.py (lines 56-83).                                   *)
(***************************************************************************)
sys_executable == "python"

\* Mutants of build_spotdl_cmd: the flag put in front of the options instead
\* of at the end; and the flag appended whatever user_auth says.
build_spotdl_cmd_flag_first(query, out_dir, bitrate, user_auth) ==
    <<sys_executable, "-m", "spotdl", "download", query>>
    \o (IF user_auth THEN <<"--user-auth">> ELSE <<>>)
    \o <<"--output", out_dir, "--format", "m4a", "--bitrate", bitrate>>

build_spotdl_cmd_always_auth(query, out_dir, bitrate, user_auth) ==
    <<sys_executable, "-m", "spotdl", "download", query,
      "--output", out_dir, "--format", "m4a", "--bitrate", bitrate,
      "--user-auth">>

build_spotdl_cmd(query, out_dir, bitrate, user_auth) ==
    LET cmd == <<sys_executable, "-m", "spotdl", "download", query,
                 "--output", out_dir,
                 "--format", "m4a",
                 "--bitrate", bitrate>>
    IN  IF user_auth THEN Append(cmd, "--user-auth") ELSE cmd

\* data.get("entries", []) or []
entries_of(data) == IF data.entries = <<>> THEN <<>> ELSE data.entries[1]

\* Mutants of extract_entries: the uploader used as it comes, untrimmed; and
\* the test of the title dropped, so that every record yields a query.
RECURSIVE extract_entries_raw_uploader(_)
extract_entries_raw_uploader(es) ==
    IF Len(es) = 0 THEN <<>>
    ELSE LET entry    == es[1]
             title    == strip(or_empty(entry.title))
             uploader == or_empty(entry.uploader)
             rest     == extract_entries_raw_uploader(Tail(es))
         IN  IF title # ""
             THEN <<(IF uploader # "" THEN uploader \o " - " \o title ELSE title)>>
                  \o rest
             ELSE rest

RECURSIVE extract_entries_unfiltered(_)
extract_entries_unfiltered(es) ==
    IF Len(es) = 0 THEN <<>>
    ELSE LET entry    == es[1]
             title    == strip(or_empty(entry.title))
             uploader == strip(or_empty(entry.uploader))
         IN  <<(IF uploader # "" THEN uploader \o " - " \o title ELSE title)>>
             \o extract_entries_unfiltered(Tail(es))

\* the loop body of lines 74-77 over a list of entries
RECURSIVE extract_entries(_)
extract_entries(es) ==
    IF Len(es) = 0 THEN <<>>
    ELSE LET entry    == es[1]
             title    == strip(or_empty(entry.title))
             uploader == strip(or_empty(entry.uploader))
             rest     == extract_entries(Tail(es))
         IN  IF title # ""
             THEN <<(IF uploader # "" THEN uploader \o " - " \o title ELSE title)>>
                  \o rest
             ELSE rest

extract_sc_queries_from_ydl_json(data) == extract_entries(entries_of(data))

\* Mutant of sanitize_sc_url: only the query string is cut, a fragment stays.
sanitize_sc_url_query_only(url) == split_first(url, "?")

sanitize_sc_url(url) == split_first(split_first(url, "?"), "#")


(***************************************************************************)
(* The environment: what the yt-dlp backends, shutil.which and the spotdl  *)
(* subprocess can answer.                                                  *)
(***************************************************************************)
\* entry.get("title"), entry.get("uploader"): missing/None is <<>>
Titles == {<<>>, <<" ">>, <<"Foo">>, <<" Baz ">>}
Uploaders == {<<>>, <<"Bar ">>}
TrackRecords == [title : Titles, uploader : Uploaders]
EntryLists == UNION {[1..n -> TrackRecords] : n \in 0..MaxEntries}
\* an info-dict: "entries" missing or None (<<>>), or a list of records
InfoDicts == [entries : {<<>>} \cup {<<es>> : es \in EntryLists}]
\* what extract_info returns or json.loads yields: None/null, or an info-dict
InfoResults == {<<>>} \cup {<<d>> : d \in InfoDicts}

\* YoutubeDL / the import of yt_dlp raising, or returning a result
ApiErrors == {"No module named 'yt_dlp'"}
ApiOutcomes ==
    [kind : {"raise"}, msg : ApiErrors, data : {<<>>}]
    \cup [kind : {"data"}, msg : {""}, data : InfoResults]

\* subprocess.run(cmd, capture_output=True, text=True): the completed
\* process.  stdout.json is what json.loads(proc.stdout) yields, <<>> when it
\* raises (stdout is no JSON document).
ProcOutcomes ==
    [returncode : {1},
     stderr : {"", " ERROR: HTTP Error 404\n"},
     stdout : [text : {"usage: yt-dlp\n"}, json : {<<>>}]]
    \cup [returncode : {0},
          stderr : {""},
          stdout : [text : {"garbage"}, json : {<<>>}]]
    \cup [returncode : {0},
          stderr : {""},
          stdout : [text : {"{...}"}, json : {<<r>> : r \in InfoResults}]]

\* shutil.which(name): None, or the path found
WhichOutcomes(name) == {<<>>, <<"/usr/bin/" \o name>>}

(***************************************************************************)
(* State.  th[t] is the frame of thread t: a direct caller of              *)
(* get_soundcloud_queries (the unit test) or a GUI worker thread running   *)
(* run_spotdl.  The other variables are the GUI's shared objects.          *)
(***************************************************************************)
VARIABLES
    th,        \* thread -> its locals and position
    clicks,    \* Download clicks so far
    started,   \* threading.Thread(...).start() calls so far
    q,         \* the queue.Queue of log lines (line 281)
    log_txt,   \* the lines inserted in the log view
    dialogs,   \* the messagebox calls made, in order
    progress   \* the progress bar: running, and the pending root.after(0, progress.stop)

vars == <<th, clicks, started, q, log_txt, dialogs, progress>>

Threads == 1..MaxClicks

IdleThread ==
    [pc |-> "idle", caller |-> "none",
     url |-> "", out_dir |-> "", service |-> "", use_auth |-> FALSE,
     raw |-> "", sc_url |-> "", errors |-> <<>>, attempts |-> <<>>,
     lookups |-> <<>>, exe |-> <<>>, ret |-> <<>>, exc |-> <<>>,
     queries |-> <<>>, idx |-> 0, missing |-> <<>>, launches |-> <<>>,
     cmd |-> <<>>, success |-> FALSE, proc |-> <<>>, from |-> "", ok |-> <<>>]

(***************************************************************************)
(* get_soundcloud_queries (lines 86-165).                                  *)
(***************************************************************************)
\* _python_api(flat) on the library's answer `out`: the queries, or the
\* exception raised (by the import, by YoutubeDL, or by data.get on None)
python_api(flat, out) ==
    IF out.kind = "raise"
    THEN [raised |-> TRUE, msg |-> out.msg, q |-> <<>>, answer |-> "raise"]
    ELSE IF out.data = <<>>
    THEN [raised |-> TRUE, msg |-> "'NoneType' object has no attribute 'get'",
          q |-> <<>>, answer |-> "none"]
    ELSE [raised |-> FALSE, msg |-> "",
          q |-> extract_sc_queries_from_ydl_json(out.data[1]), answer |-> "info"]

\* the argument list of line 108
ydl_cmdline(ydl_cmd, flat, sc_url) ==
    ydl_cmd \o (IF flat THEN <<"--flat-playlist">> ELSE <<>>) \o <<"-J", sc_url>>

\* _extract_with_ydl on the completed process `proc` (lines 109-112)
extract_with_ydl(proc) ==
    IF proc.returncode # 0
    THEN [raised |-> TRUE,
          msg |-> IF strip(proc.stderr) # "" THEN strip(proc.stderr)
                  ELSE strip(proc.stdout.text),
          q |-> <<>>, answer |-> "raise"]
    ELSE IF proc.stdout.json = <<>>
    THEN [raised |-> TRUE, msg |-> "Expecting value: line 1 column 1 (char 0)",
          q |-> <<>>, answer |-> "raise"]
    ELSE IF proc.stdout.json[1] = <<>>
    THEN [raised |-> TRUE, msg |-> "'NoneType' object has no attribute 'get'",
          q |-> <<>>, answer |-> "none"]
    ELSE [raised |-> FALSE, msg |-> "",
          q |-> extract_sc_queries_from_ydl_json(proc.stdout.json[1][1]),
          answer |-> "info"]

\* what the attempts of a tier can come back with: the results of _python_api
\* and of _extract_with_ydl over everything the backend can answer
FlatApiResults == {python_api(TRUE, out) : out \in ApiOutcomes}
FullApiResults == {python_api(FALSE, out) : out \in ApiOutcomes}
YdlResults == {extract_with_ydl(proc) : proc \in ProcOutcomes}

\* answer is what the backend handed over: "raise" (it raised, exited non-zero
\* or printed no JSON), "none" (None, or JSON null) or "info" (an info-dict)
attempt_record(tier, flat, cmd, r) ==
    [tier |-> tier, flat |-> flat, cmd |-> cmd, q |-> r.q, answer |-> r.answer,
     res |-> IF r.raised THEN "error" ELSE IF r.q = <<>> THEN "empty" ELSE "tracks"]

\* Mutants of flat_attempt: the early return dropped (the full attempt always
\* follows a flat attempt that did not raise); and an exception of the flat
\* attempt swallowed, going on to the full attempt.
flat_attempt_no_return(s, tier, cmd, r, errPrefix, pcFull, pcNext) ==
    LET s1 == [s EXCEPT !.attempts = Append(@, attempt_record(tier, TRUE, cmd, r))]
    IN  IF r.raised
        THEN [s1 EXCEPT !.errors = Append(@, errPrefix \o r.msg), !.pc = pcNext]
        ELSE [s1 EXCEPT !.pc = pcFull]

flat_attempt_retry_on_error(s, tier, cmd, r, errPrefix, pcFull, pcNext) ==
    LET s1 == [s EXCEPT !.attempts = Append(@, attempt_record(tier, TRUE, cmd, r))]
    IN  IF r.raised \/ r.q = <<>>
        THEN [s1 EXCEPT !.pc = pcFull]
        ELSE [s1 EXCEPT !.ret = r.q, !.pc = "gsq_return"]

\* Mutants of full_attempt: `return q` without `if q:`; and the "returned no
\* entries" reason not recorded.
full_attempt_unchecked(s, tier, cmd, r, errPrefix, emptyMsg, pcNext) ==
    LET s1 == [s EXCEPT !.attempts = Append(@, attempt_record(tier, FALSE, cmd, r))]
    IN  IF r.raised
        THEN [s1 EXCEPT !.errors = Append(@, errPrefix \o r.msg), !.pc = pcNext]
        ELSE [s1 EXCEPT !.ret = r.q, !.pc = "gsq_return"]

full_attempt_drop_reason(s, tier, cmd, r, errPrefix, emptyMsg, pcNext) ==
    LET s1 == [s EXCEPT !.attempts = Append(@, attempt_record(tier, FALSE, cmd, r))]
    IN  IF r.raised
        THEN [s1 EXCEPT !.errors = Append(@, errPrefix \o r.msg), !.pc = pcNext]
        ELSE IF r.q = <<>>
        THEN [s1 EXCEPT !.pc = pcNext]
        ELSE [s1 EXCEPT !.ret = r.q, !.pc = "gsq_return"]

\* Mutant of full_attempt: an empty full attempt is made again
full_attempt_again(s, tier, cmd, r, errPrefix, emptyMsg, pcNext) ==
    LET s1 == [s EXCEPT !.attempts = Append(@, attempt_record(tier, FALSE, cmd, r))]
    IN  IF r.raised
        THEN [s1 EXCEPT !.errors = Append(@, errPrefix \o r.msg), !.pc = pcNext]
        ELSE IF r.q = <<>>
        THEN s1
        ELSE [s1 EXCEPT !.ret = r.q, !.pc = "gsq_return"]

\* attempts and lookups are the frame's record of the backend calls made (the
\* library calls, the subprocesses spawned, the shutil.which lookups), in order.
\* A tier's first attempt, `q = attempt(flat=True)`, with result r, in frame s:
\* an exception leaves the try block for its except clause; an empty list goes
\* on to the full attempt; a non-empty list is returned.
flat_attempt(s, tier, cmd, r, errPrefix, pcFull, pcNext) ==
    LET s1 == [s EXCEPT !.attempts = Append(@, attempt_record(tier, TRUE, cmd, r))]
    IN  IF r.raised
        THEN [s1 EXCEPT !.errors = Append(@, errPrefix \o r.msg), !.pc = pcNext]
        ELSE IF r.q = <<>>
        THEN [s1 EXCEPT !.pc = pcFull]
        ELSE [s1 EXCEPT !.ret = r.q, !.pc = "gsq_return"]

\* A tier's second attempt, `q = attempt(flat=False)`, then `if q: return q`
\* and the "returned no entries" reason.
full_attempt(s, tier, cmd, r, errPrefix, emptyMsg, pcNext) ==
    LET s1 == [s EXCEPT !.attempts = Append(@, attempt_record(tier, FALSE, cmd, r))]
    IN  IF r.raised
        THEN [s1 EXCEPT !.errors = Append(@, errPrefix \o r.msg), !.pc = pcNext]
        ELSE IF r.q = <<>>
        THEN [s1 EXCEPT !.errors = Append(@, emptyMsg), !.pc = pcNext]
        ELSE [s1 EXCEPT !.ret = r.q, !.pc = "gsq_return"]

InvalidUrlMsg ==
    "The URL does not appear to be a full SoundCloud link. "
    \o "Please paste the entire playlist URL, including https://soundcloud.com/..."

\* line 100: sc_url.startswith("http")
scheme_check(sc_url) == startswith(sc_url, "http")

\* lines 98-104 and 122: sanitize, the scheme check, errors = []
gsq_entry(s) ==
    LET u == sanitize_sc_url(strip(s.raw))
    IN  IF ~scheme_check(u)
        THEN [s EXCEPT !.sc_url = u,
                       !.exc = <<[type |-> "ValueError", msg |-> InvalidUrlMsg]>>,
                       !.pc = "gsq_raise"]
        ELSE [s EXCEPT !.sc_url = u, !.errors = <<>>, !.pc = "tier1_flat"]

Enter(t) ==
    /\ th[t].pc = "gsq"
    /\ th' = [th EXCEPT ![t] = gsq_entry(@)]
    /\ UNCHANGED <<clicks, started, q, log_txt, dialogs, progress>>

\* Tier 1 (lines 125-133)
Tier1Flat(t) ==
    /\ th[t].pc = "tier1_flat"
    /\ \E r \in FlatApiResults :
        th' = [th EXCEPT ![t] =
                 flat_attempt(@, 1, <<"YoutubeDL", "in_playlist", @.sc_url>>,
                              r,
                              "Python API error: ", "tier1_full", "tier2_flat")]
    /\ UNCHANGED <<clicks, started, q, log_txt, dialogs, progress>>

Tier1Full(t) ==
    /\ th[t].pc = "tier1_full"
    /\ \E r \in FullApiResults :
        th' = [th EXCEPT ![t] =
                 full_attempt(@, 1, <<"YoutubeDL", "False", @.sc_url>>,
                              r,
                              "Python API error: ",
                              "Python API returned no entries even after full extraction",
                              "tier2_flat")]
    /\ UNCHANGED <<clicks, started, q, log_txt, dialogs, progress>>

\* Tier 2 (lines 136-144)
ModuleCmd == <<sys_executable, "-m", "yt_dlp">>

Tier2Flat(t) ==
    /\ th[t].pc = "tier2_flat"
    /\ \E r \in YdlResults :
        th' = [th EXCEPT ![t] =
                 flat_attempt(@, 2, ydl_cmdline(ModuleCmd, TRUE, @.sc_url),
                              r,
                              "python -m yt_dlp error: ", "tier2_full", "tier3_which")]
    /\ UNCHANGED <<clicks, started, q, log_txt, dialogs, progress>>

Tier2Full(t) ==
    /\ th[t].pc = "tier2_full"
    /\ \E r \in YdlResults :
        th' = [th EXCEPT ![t] =
                 full_attempt(@, 2, ydl_cmdline(ModuleCmd, FALSE, @.sc_url),
                              r,
                              "python -m yt_dlp error: ",
                              "python -m yt_dlp returned no entries even after full extraction",
                              "tier3_which")]
    /\ UNCHANGED <<clicks, started, q, log_txt, dialogs, progress>>

\* Tier 3 (lines 147-159)
\* shutil.which("yt-dlp") or shutil.which("yt-dlp.exe"): the second lookup is
\* made only when the first finds nothing
\* Mutant: the result of the first lookup is dropped
which_exe_second_only(s, w1, w2) ==
    IF w1 # <<>>
    THEN [s EXCEPT !.lookups = @ \o <<[name |-> "yt-dlp", found |-> w1]>>,
                   !.exe = w2]
    ELSE [s EXCEPT !.lookups = @ \o <<[name |-> "yt-dlp", found |-> w1],
                                      [name |-> "yt-dlp.exe", found |-> w2]>>,
                   !.exe = w2]

which_exe(s, w1, w2) ==
    IF w1 # <<>>
    THEN [s EXCEPT !.lookups = @ \o <<[name |-> "yt-dlp", found |-> w1]>>,
                   !.exe = w1]
    ELSE [s EXCEPT !.lookups = @ \o <<[name |-> "yt-dlp", found |-> w1],
                                      [name |-> "yt-dlp.exe", found |-> w2]>>,
                   !.exe = w2]

\* line 148 `if exe:` and its else branch, line 159
tier3_branch(s) ==
    IF s.exe # <<>>
    THEN [s EXCEPT !.pc = "tier3_flat"]
    ELSE [s EXCEPT !.errors = Append(@, "yt-dlp executable not found on PATH"),
                   !.pc = "fail"]

Tier3Which(t) ==
    /\ th[t].pc = "tier3_which"
    /\ \E w1 \in WhichOutcomes("yt-dlp"), w2 \in WhichOutcomes("yt-dlp.exe") :
        th' = [th EXCEPT ![t] = tier3_branch(which_exe(@, w1, w2))]
    /\ UNCHANGED <<clicks, started, q, log_txt, dialogs, progress>>

Tier3Flat(t) ==
    /\ th[t].pc = "tier3_flat"
    /\ \E r \in YdlResults :
        th' = [th EXCEPT ![t] =
                 flat_attempt(@, 3, ydl_cmdline(<<@.exe[1]>>, TRUE, @.sc_url),
                              r,
                              "Executable error: ", "tier3_full", "fail")]
    /\ UNCHANGED <<clicks, started, q, log_txt, dialogs, progress>>

Tier3Full(t) ==
    /\ th[t].pc = "tier3_full"
    /\ \E r \in YdlResults :
        th' = [th EXCEPT ![t] =
                 full_attempt(@, 3, ydl_cmdline(<<@.exe[1]>>, FALSE, @.sc_url),
                              r,
                              "Executable error: ",
                              "yt-dlp executable returned no entries even after full extraction",
                              "fail")]
    /\ UNCHANGED <<clicks, started, q, log_txt, dialogs, progress>>

\* lines 162-165
FailPrefix == "yt-dlp could not extract the SoundCloud set."

full_msg(errors) == FailPrefix \o join(".", errors)

gsq_fail(s) ==
    [s EXCEPT !.exc = <<[type |-> "RuntimeError", msg |-> full_msg(s.errors)]>>,
              !.pc = "gsq_raise"]

Fail(t) ==
    /\ th[t].pc = "fail"
    /\ th' = [th EXCEPT ![t] = gsq_fail(@)]
    /\ UNCHANGED <<clicks, started, q, log_txt, dialogs, progress>>

Resolve(t) ==
    \/ Enter(t)
    \/ Tier1Flat(t) \/ Tier1Full(t)
    \/ Tier2Flat(t) \/ Tier2Full(t)
    \/ Tier3Which(t) \/ Tier3Flat(t) \/ Tier3Full(t)
    \/ Fail(t)

(***************************************************************************)
(* A direct call get_soundcloud_queries(raw), as the unit test makes it    *)
(* (line 398): thread 1 is the caller, there is no GUI.                    *)
(***************************************************************************)
RawUrls ==
    {"https://soundcloud.com/u/sets/s?utm=1#frag",
     " http://sc.io/a#frag?utm=1 \n",
     "httpx",
     "m_source=clipboard&utm_medium=text",
     "", "  ", "htt",
     "?https://sc.io/a", " #http://sc.io/a",
     "HTTPS://sc.io/a", "ftp://sc.io/a",
     "soundcloud.com/u/sets/s", "x http://sc.io/a"}

InitCall ==
    /\ \E raw \in RawUrls :
        th = [t \in Threads |->
                IF t = 1
                THEN [IdleThread EXCEPT !.pc = "gsq", !.caller = "test", !.raw = raw]
                ELSE IdleThread]
    /\ clicks = 0
    /\ started = 0
    /\ q = <<>>
    /\ log_txt = <<>>
    /\ dialogs = <<>>
    /\ progress = [running |-> FALSE, stops |-> 0]

NextCall ==
    \/ Enter(1)
    \/ Tier1Flat(1)
    \/ Tier1Full(1)
    \/ Tier2Flat(1)
    \/ Tier2Full(1)
    \/ Tier3Which(1)
    \/ Tier3Flat(1)
    \/ Tier3Full(1)
    \/ Fail(1)

SpecCall == InitCall /\ [][NextCall]_vars

(***************************************************************************)
(* The GUI layer (lines 281-363).  The messages are the source's, in ASCII: *)
(* a leading pictograph is left out (">" stands for the runner of line     *)
(* 316), "--" stands for the box-drawing dashes of line 331, and the       *)
(* backquotes of line 342 are dropped.                                     *)
(***************************************************************************)
DEFAULT_OUT == "/sdcard/Download/spotdl_output"

\* bit_var.get(): the Bitrate field keeps its initial value (line 247)
bit_var == "320k"

\* str(n) of a small number, as an f-string formats it
str(n) == <<"0", "1", "2", "3", "4", "5", "6", "7", "8", "9">>[n + 1]

\* log(msg): q.put(msg) (lines 283-284)
log(queue, msg) == Append(queue, msg)

\* Mutant of poll: the newest line of the queue is taken, not the oldest
poll_newest_first ==
    /\ q # <<>>
    /\ log_txt' = Append(log_txt, q[Len(q)] \o "\n")
    /\ q' = SubSeq(q, 1, Len(q) - 1)
    /\ UNCHANGED <<th, clicks, started, dialogs, progress>>

\* One turn of poll's loop (lines 289-293): q.get_nowait() and the insert of
\* ln + "\n" at the end of the log view.  On queue.Empty poll re-arms itself
\* and changes nothing.
poll ==
    /\ q # <<>>
    /\ log_txt' = Append(log_txt, Head(q) \o "\n")
    /\ q' = Tail(q)
    /\ UNCHANGED <<th, clicks, started, dialogs, progress>>

\* a pending root.after(0, progress.stop) callback runs on the UI thread
progress_stop ==
    /\ progress.stops > 0
    /\ progress' = [running |-> FALSE, stops |-> progress.stops - 1]
    /\ UNCHANGED <<th, clicks, started, q, log_txt, dialogs>>

\* validate_and_go (lines 349-363), the Download button's command, with the
\* fields as the user left them
validate_and_go(url_var, service_var, out_var, auth_var) ==
    LET url == strip(url_var)
        svc == service_var
    IN  /\ clicks' = clicks + 1
        /\ IF svc = "Spotify" /\ ~contains(url, "open.spotify.com/playlist/")
           THEN /\ dialogs' = Append(dialogs,
                                [kind |-> "showerror", title |-> "URL",
                                 text |-> "Enter a valid Spotify playlist URL."])
                /\ UNCHANGED <<th, started, progress>>
           ELSE IF svc = "SoundCloud" /\ ~contains(url, "soundcloud.com/")
           THEN /\ dialogs' = Append(dialogs,
                                [kind |-> "showerror", title |-> "URL",
                                 text |-> "Enter a valid SoundCloud playlist URL."])
                /\ UNCHANGED <<th, started, progress>>
           ELSE /\ progress' = [progress EXCEPT !.running = TRUE]
                /\ started' = started + 1
                /\ th' = [th EXCEPT ![started + 1] =
                            [IdleThread EXCEPT
                                !.pc = "run_spotdl", !.caller = "gui",
                                !.url = url,
                                !.out_dir = IF strip(out_var) # "" THEN strip(out_var)
                                            ELSE DEFAULT_OUT,
                                !.service = svc,
                                !.use_auth = auth_var]]
                /\ UNCHANGED dialogs
        /\ UNCHANGED <<q, log_txt>>

\* run_spotdl up to the dispatch (lines 300-309); made is whether os.makedirs
\* succeeded or raised PermissionError
RunSpotdl(t) ==
    /\ th[t].pc = "run_spotdl"
    /\ \E made \in BOOLEAN :
        IF ~made
        THEN /\ dialogs' = Append(dialogs,
                             [kind |-> "showerror", title |-> "Permission",
                              text |-> "Cannot write to selected folder."])
             /\ progress' = [progress EXCEPT !.stops = @ + 1]
             /\ th' = [th EXCEPT ![t].pc = "done"]
        ELSE /\ th' = [th EXCEPT ![t].pc =
                         IF th[t].service = "Spotify" THEN "do_spotify"
                         ELSE "do_soundcloud"]
             /\ UNCHANGED <<dialogs, progress>>
    /\ UNCHANGED <<clicks, started, q, log_txt>>

\* _do_spotify (lines 314-317) up to the call of _stream(cmd)
DoSpotify(t) ==
    /\ th[t].pc = "do_spotify"
    /\ LET cmd == build_spotdl_cmd(th[t].url, th[t].out_dir, bit_var, th[t].use_auth)
       IN  /\ q' = log(q, "> " \o join(" ", cmd))
           /\ th' = [th EXCEPT ![t] =
                       [@ EXCEPT !.cmd = cmd, !.success = FALSE,
                                 !.from = "do_spotify", !.pc = "stream"]]
    /\ UNCHANGED <<clicks, started, log_txt, dialogs, progress>>

\* _do_soundcloud, line 321: the call of get_soundcloud_queries(scurl)
DoSoundcloud(t) ==
    /\ th[t].pc = "do_soundcloud"
    /\ th' = [th EXCEPT ![t] = [@ EXCEPT !.raw = th[t].url, !.pc = "gsq"]]
    /\ UNCHANGED <<clicks, started, q, log_txt, dialogs, progress>>

\* the callee's frame is gone once get_soundcloud_queries has returned or raised
pop_gsq(s) ==
    [s EXCEPT !.raw = "", !.sc_url = "", !.errors = <<>>, !.attempts = <<>>,
              !.lookups = <<>>, !.exe = <<>>, !.ret = <<>>, !.exc = <<>>]

\* _do_soundcloud, lines 322-329: the except clause, the empty-list warning,
\* the "Found" line and missing = []
Resolved(t) ==
    /\ th[t].caller = "gui"
    /\ th[t].pc \in {"gsq_return", "gsq_raise"}
    /\ IF th[t].pc = "gsq_raise"
       THEN /\ dialogs' = Append(dialogs,
                            [kind |-> "showerror", title |-> "SoundCloud",
                             text |-> "Error reading playlist:\n" \o th[t].exc[1].msg])
            /\ th' = [th EXCEPT ![t] = [pop_gsq(@) EXCEPT !.pc = "finish"]]
            /\ UNCHANGED q
       ELSE IF th[t].ret = <<>>
       THEN /\ dialogs' = Append(dialogs,
                            [kind |-> "showwarning", title |-> "SoundCloud",
                             text |-> "No tracks found in this SoundCloud set."])
            /\ th' = [th EXCEPT ![t] = [pop_gsq(@) EXCEPT !.pc = "finish"]]
            /\ UNCHANGED q
       ELSE /\ q' = log(q, "Found " \o str(Len(th[t].ret))
                            \o " tracks in SoundCloud playlist")
            /\ th' = [th EXCEPT ![t] =
                        [pop_gsq(@) EXCEPT !.queries = th[t].ret, !.missing = <<>>,
                                           !.idx = 1, !.pc = "sc_loop"]]
            /\ UNCHANGED dialogs
    /\ UNCHANGED <<clicks, started, log_txt, progress>>

\* _do_soundcloud, lines 330-332 and 335-336: the head of the loop with the
\* call of _stream(cmd, success=True), or the end of the loop with the report
\* of the missing tracks
ScLoop(t) ==
    /\ th[t].pc = "sc_loop"
    /\ IF th[t].idx <= Len(th[t].queries)
       THEN LET qtxt == th[t].queries[th[t].idx]
            IN  /\ q' = log(q, "\n-- " \o str(th[t].idx) \o "/"
                               \o str(Len(th[t].queries)) \o ": " \o qtxt \o " --")
                /\ th' = [th EXCEPT ![t] =
                            [@ EXCEPT !.cmd = build_spotdl_cmd(qtxt, th[t].out_dir,
                                                               bit_var, FALSE),
                                      !.success = TRUE,
                                      !.from = "do_soundcloud", !.pc = "stream"]]
       ELSE /\ q' = IF th[t].missing # <<>>
                    THEN log(q, "\nCould not download the following tracks:\n"
                                \o join("\n", th[t].missing))
                    ELSE q
            /\ th' = [th EXCEPT ![t].pc = "finish"]
    /\ UNCHANGED <<clicks, started, log_txt, dialogs, progress>>

\* Mutant of stream_return: a False from _stream ends the worker on the spot
stream_return_quit(s, ok) ==
    IF ~ok
    THEN [s EXCEPT !.pc = "done", !.cmd = <<>>, !.proc = <<>>, !.ok = <<ok>>]
    ELSE IF s.from = "do_spotify"
    THEN [s EXCEPT !.pc = "finish", !.cmd = <<>>, !.proc = <<>>, !.ok = <<ok>>]
    ELSE [s EXCEPT !.idx = @ + 1, !.pc = "sc_loop", !.cmd = <<>>, !.proc = <<>>,
                   !.ok = <<ok>>]

\* Mutant of stream_return: a failed download ends the loop of _do_soundcloud
stream_return_break(s, ok) ==
    IF s.from = "do_spotify"
    THEN [s EXCEPT !.pc = "finish", !.cmd = <<>>, !.proc = <<>>, !.ok = <<ok>>]
    ELSE [s EXCEPT !.missing = IF ok THEN @ ELSE Append(@, s.queries[s.idx]),
                   !.idx = IF ok THEN @ + 1 ELSE Len(s.queries) + 1,
                   !.pc = "sc_loop", !.cmd = <<>>, !.proc = <<>>, !.ok = <<ok>>]

\* The return of _stream with value ok to its caller: _do_spotify drops it
\* (line 317) and run_spotdl goes on to line 310; _do_soundcloud appends the
\* query to missing when it is False (lines 333-334) and takes the next query.
\* The frame's ok keeps the value the last call of _stream returned.
stream_return(s, ok) ==
    IF s.from = "do_spotify"
    THEN [s EXCEPT !.pc = "finish", !.cmd = <<>>, !.proc = <<>>, !.ok = <<ok>>]
    ELSE [s EXCEPT !.missing = IF ok THEN @ ELSE Append(@, s.queries[s.idx]),
                   !.idx = @ + 1, !.pc = "sc_loop", !.cmd = <<>>, !.proc = <<>>,
                   !.ok = <<ok>>]

\* _stream, lines 339-343: subprocess.Popen(cmd, ...) starts the process, or
\* raises FileNotFoundError.  launches is the frame's record of the Popen
\* calls made, each with its command and how it ended: "FileNotFoundError",
\* "running", or the exit code p.wait() gave.
StreamPopen(t) ==
    /\ th[t].pc = "stream"
    /\ \E found \in BOOLEAN :
        IF found
        THEN /\ th' = [th EXCEPT ![t] =
                         [@ EXCEPT !.launches =
                                       Append(@, [cmd |-> th[t].cmd, res |-> "running"]),
                                   !.proc = <<[lines |-> 0]>>, !.pc = "stream_read"]]
             /\ UNCHANGED dialogs
        ELSE /\ dialogs' = Append(dialogs,
                             [kind |-> "showerror", title |-> "SpotDL missing",
                              text |-> "Run pip install spotdl."])
             /\ th' = [th EXCEPT ![t] =
                         stream_return(
                           [@ EXCEPT !.launches =
                               Append(@, [cmd |-> th[t].cmd, res |-> "FileNotFoundError"])],
                           FALSE)]
    /\ UNCHANGED <<clicks, started, q, log_txt, progress>>

\* what the download subprocess prints
OutputLines == {"Downloaded \n"}

\* _stream, lines 344-345: one line of the process's output is logged
StreamLine(t) ==
    /\ th[t].pc = "stream_read"
    /\ th[t].proc[1].lines < MaxLines
    /\ \E line \in OutputLines : q' = log(q, rstrip(line))
    /\ th' = [th EXCEPT ![t].proc = <<[lines |-> th[t].proc[1].lines + 1]>>]
    /\ UNCHANGED <<clicks, started, log_txt, dialogs, progress>>

\* Mutant of stream_result: the exit code decides whatever `success` says
stream_result_exit_code(success, returncode) == returncode = 0

\* line 347: (p.returncode == 0) if success else True
stream_result(success, returncode) == IF success THEN returncode = 0 ELSE TRUE

\* _stream, lines 346-347: the output has ended, p.wait() and the result
StreamWait(t) ==
    /\ th[t].pc = "stream_read"
    /\ \E returncode \in {0, 1} :
        th' = [th EXCEPT ![t] =
                 stream_return(
                   [@ EXCEPT !.launches[Len(@.launches)].res = str(returncode)],
                   stream_result(th[t].success, returncode))]
    /\ UNCHANGED <<clicks, started, q, log_txt, dialogs, progress>>

\* run_spotdl, lines 310-312
Finish(t) ==
    /\ th[t].pc = "finish"
    /\ q' = log(q, "Finished")
    /\ progress' = [progress EXCEPT !.stops = @ + 1]
    /\ dialogs' = Append(dialogs,
                    [kind |-> "showinfo", title |-> "Done",
                     text |-> "Playlist download completed!"])
    /\ th' = [th EXCEPT ![t].pc = "done"]
    /\ UNCHANGED <<clicks, started, log_txt>>

\* a worker thread's next step
Worker(t) ==
    \/ RunSpotdl(t)
    \/ DoSpotify(t)
    \/ DoSoundcloud(t)
    \/ Resolve(t)
    \/ Resolved(t)
    \/ ScLoop(t)
    \/ StreamPopen(t)
    \/ StreamLine(t)
    \/ StreamWait(t)
    \/ Finish(t)

\* the state when root.mainloop() starts (line 373)
Init ==
    /\ th = [t \in Threads |-> IdleThread]
    /\ clicks = 0
    /\ started = 0
    /\ q = <<>>
    /\ log_txt = <<>>
    /\ dialogs = <<>>
    /\ progress = [running |-> FALSE, stops |-> 0]

SpotifyUrl == "https://open.spotify.com/playlist/p1"

\* What the user may have in the fields (URL, service, output folder, account
\* checkbox) when pressing Download.
Fields ==
    {[url |-> " " \o SpotifyUrl, service |-> "Spotify", out |-> " ", auth |-> TRUE],
     [url |-> SpotifyUrl, service |-> "Spotify", out |-> "/sdcard/Music", auth |-> FALSE],
     [url |-> " https://soundcloud.com/u/sets/s?utm=1 ", service |-> "SoundCloud",
      out |-> "/sdcard/Music ", auth |-> FALSE],
     [url |-> "soundcloud.com/u/sets/s", service |-> "SoundCloud", out |-> "",
      auth |-> TRUE],
     [url |-> SpotifyUrl, service |-> "SoundCloud", out |-> "", auth |-> FALSE],
     [url |-> "https://soundcloud.com/u/sets/s", service |-> "Spotify", out |-> "",
      auth |-> FALSE]}

\* One session: the user presses Download once.
Download ==
    /\ clicks = 0
    /\ \E f \in Fields : validate_and_go(f.url, f.service, f.out, f.auth)

Next ==
    \/ Download
    \/ poll
    \/ progress_stop
    \/ \E t \in Threads : Worker(t)

Spec == Init /\ [][Next]_vars

\* A session in which the user presses Download up to MaxClicks times, whatever
\* the earlier workers are doing, with fields for which no yt-dlp backend is
\* consulted: a Spotify playlist, a SoundCloud URL that fails the scheme
\* check, a URL that fails the validation.
QuickFields == {f \in Fields : ~startswith(strip(f.url), "https://soundcloud.com/")}

DownloadAgain ==
    /\ clicks < MaxClicks
    /\ \E f \in QuickFields : validate_and_go(f.url, f.service, f.out, f.auth)

QuickWorker(t) ==
    \/ RunSpotdl(t)
    \/ DoSpotify(t)
    \/ DoSoundcloud(t)
    \/ Enter(t)
    \/ Resolved(t)
    \/ StreamPopen(t)
    \/ StreamLine(t)
    \/ StreamWait(t)
    \/ Finish(t)

NextClicks ==
    \/ DownloadAgain
    \/ poll
    \/ progress_stop
    \/ \E t \in Threads : QuickWorker(t)

SpecClicks == Init /\ [][NextClicks]_vars

(***************************************************************************)
(* Properties of get_soundcloud_queries, checked under SpecCall.           *)
(***************************************************************************)
Finished(t) == th[t].pc \in {"gsq_return", "gsq_raise"}

HasTracks(t) == \E i \in DOMAIN th[t].attempts : th[t].attempts[i].res = "tracks"

Raised(t, type) == th[t].pc = "gsq_raise" /\ th[t].exc # <<>> /\ th[t].exc[1].type = type

\* where the frame stands when the full attempt of `tier` is the next thing it does
FullPc(tier) == <<"tier1_full", "tier2_full", "tier3_full">>[tier]

\* what follows attempt i of frame t is the full attempt of the same tier
FullFollows(t, i) ==
    LET a == th[t].attempts
    IN  IF i < Len(a)
        THEN a[i + 1].tier = a[i].tier /\ ~a[i + 1].flat
        ELSE th[t].pc = FullPc(a[i].tier)

\* C1: a call that passed the scheme check ends either returning a non-empty
\* list or raising, never returning an empty list; and when every attempt it
\* made returned zero tracks (none raised) it raises the aggregated error.
C1_NonEmptyOrRaises ==
    \A t \in Threads :
        /\ th[t].pc = "gsq_return" => th[t].ret # <<>> /\ th[t].exc = <<>>
        /\ th[t].pc = "gsq_raise" => th[t].ret = <<>> /\ th[t].exc # <<>>
        /\ ( /\ Finished(t)
             /\ th[t].attempts # <<>>
             /\ \A i \in DOMAIN th[t].attempts : th[t].attempts[i].res = "empty" )
           => /\ Raised(t, "RuntimeError")
              /\ startswith(th[t].exc[1].msg, FailPrefix)

C1_Witness ==
    /\ Finished(1)
    /\ Len(th[1].attempts) = 6
    /\ \A i \in 1..6 : th[1].attempts[i].res = "empty"
    /\ Raised(1, "RuntimeError")

\* C2: once an attempt has yielded a non-empty list, that attempt is the last
\* one, its list is what the call returns, and from then on no attempt and no
\* executable lookup is added.
C2_FirstSuccessWins ==
    /\ [](\A t \in Threads :
            \A i \in DOMAIN th[t].attempts :
                th[t].attempts[i].res = "tracks"
                => /\ i = Len(th[t].attempts)
                   /\ th[t].ret = th[t].attempts[i].q
                   /\ th[t].pc = "gsq_return"
                   /\ (th[t].attempts[i].tier < 3 => th[t].lookups = <<>>))
    /\ [][\A t \in Threads :
            HasTracks(t) => /\ th'[t].attempts = th[t].attempts
                            /\ th'[t].lookups = th[t].lookups
                            /\ th'[t].ret = th[t].ret]_vars

C2_Witness ==
    /\ Len(th[1].attempts) = 3
    /\ th[1].attempts[3].res = "tracks"
    /\ th[1].attempts[3].tier = 2
    /\ th[1].attempts[3].flat
    /\ Len(th[1].ret) = 2

\* C3: in every tier the flat attempt comes first, and the tier's full attempt
\* is made exactly when the flat attempt completed with zero tracks; tier 1
\* flat empty then tier 1 full with tracks returns those tracks with no tier 2
\* or tier 3 activity.
C3_FullIffFlatEmpty ==
    \A t \in Threads :
        LET a == th[t].attempts
        IN  /\ \A i \in DOMAIN a :
                /\ a[i].flat => (i = 1 \/ a[i - 1].tier < a[i].tier)
                /\ ~a[i].flat => /\ i > 1
                                 /\ a[i - 1].tier = a[i].tier
                                 /\ a[i - 1].flat
                                 /\ a[i - 1].res = "empty"
                /\ (a[i].flat /\ a[i].res = "empty") => FullFollows(t, i)
            /\ ( /\ Len(a) >= 2
                 /\ a[1].tier = 1 /\ a[1].flat /\ a[1].res = "empty"
                 /\ a[2].tier = 1 /\ ~a[2].flat /\ a[2].res = "tracks" )
               => /\ Len(a) = 2
                  /\ th[t].pc = "gsq_return"
                  /\ th[t].ret = a[2].q
                  /\ th[t].lookups = <<>>

C3_Witness ==
    /\ Len(th[1].attempts) = 2
    /\ th[1].attempts[1].res = "empty"
    /\ th[1].attempts[2].res = "tracks"
    /\ th[1].attempts[2].tier = 1
    /\ th[1].pc = "gsq_return"

\* C4 (as claimed): whenever the flat attempt of a tier raises, the full
\* attempt of the same tier is what follows.
C4_FlatErrorStillTriesFull ==
    \A t \in Threads :
        \A i \in DOMAIN th[t].attempts :
            (th[t].attempts[i].flat /\ th[t].attempts[i].res = "error")
            => FullFollows(t, i)

\* the scheme prefix the claim names
HasSchemePrefix(u) == startswith(u, "http://") \/ startswith(u, "https://")

\* C5 (as claimed): a call whose trimmed, sanitized URL does not start with
\* http:// or https:// raises ValueError with no backend attempt and no
\* executable lookup made.
C5_BadSchemeRaisesValueError ==
    \A t \in Threads :
        (th[t].pc \notin {"idle", "gsq"}
         /\ ~HasSchemePrefix(sanitize_sc_url(strip(th[t].raw))))
        => /\ Raised(t, "ValueError")
           /\ th[t].attempts = <<>>
           /\ th[t].lookups = <<>>

\* the failure reasons a tier can record
TierErrorPrefix(k) ==
    <<"Python API error: ", "python -m yt_dlp error: ", "Executable error: ">>[k]

TierEmptyReason(k) ==
    <<"Python API returned no entries even after full extraction",
      "python -m yt_dlp returned no entries even after full extraction",
      "yt-dlp executable returned no entries even after full extraction">>[k]

NotFoundReason == "yt-dlp executable not found on PATH"

\* the attempts of tier k in frame t ended without tracks: the flat one
\* raised, or it was empty and the full one raised or was empty
TierAttemptsFailed(t, k) ==
    LET a == th[t].attempts
    IN  \E i \in DOMAIN a :
            /\ a[i].tier = k
            /\ (i = Len(a) \/ a[i + 1].tier > k)
            /\ \/ a[i].res = "error" /\ startswith(th[t].errors[k], TierErrorPrefix(k))
               \/ a[i].res = "empty" /\ ~a[i].flat /\ th[t].errors[k] = TierEmptyReason(k)

TierConcluded(t, k) ==
    \/ TierAttemptsFailed(t, k)
    \/ /\ k = 3
       /\ th[t].errors[3] = NotFoundReason
       /\ \A i \in DOMAIN th[t].attempts : th[t].attempts[i].tier # 3

\* C6: a call that fails after the ladder has concluded all three tiers
\* without tracks, and its error is the summary followed by exactly one reason
\* per tier in tier order; an attempt that raised never ends the call before
\* tier 3 has concluded.
C6_AggregatedFailure ==
    \A t \in Threads :
        /\ Raised(t, "RuntimeError")
           => /\ Len(th[t].errors) = 3
              /\ \A k \in 1..3 : TierConcluded(t, k)
              /\ ~HasTracks(t)
              /\ th[t].exc[1].msg =
                    "yt-dlp could not extract the SoundCloud set."
                    \o th[t].errors[1] \o "." \o th[t].errors[2] \o "." \o th[t].errors[3]
        /\ (Finished(t) /\ ~HasTracks(t) /\ th[t].attempts # <<>>)
           => Raised(t, "RuntimeError")

C6_Witness ==
    /\ Raised(1, "RuntimeError")
    /\ Len(th[1].attempts) = 4
    /\ th[1].attempts[1].res = "error"
    /\ th[1].attempts[2].res = "empty"
    /\ th[1].attempts[4].res = "error"
    /\ th[1].attempts[4].tier = 3

\* C7: in tier 3, when neither name is located no tier-3 subprocess is spawned
\* and the tier records the "not found" reason; when one is located, the
\* located path is the executable of every tier-3 command.
C7_ExecutableLookup ==
    \A t \in Threads :
        LET a == th[t].attempts
            l == th[t].lookups
        IN  l # <<>> =>
              /\ l[1].name = "yt-dlp"
              /\ Len(l) = 2 => l[1].found = <<>> /\ l[2].name = "yt-dlp.exe"
              /\ (\A j \in DOMAIN l : l[j].found = <<>>)
                 => /\ \A i \in DOMAIN a : a[i].tier # 3
                    /\ Len(th[t].errors) = 3
                    /\ th[t].errors[3] = NotFoundReason
                    /\ th[t].pc \in {"fail", "gsq_raise"}
              /\ (\E j \in DOMAIN l : l[j].found # <<>>)
                 => /\ th[t].exe = l[Len(l)].found
                    /\ th[t].exe # <<>>
                    /\ \A k \in DOMAIN th[t].errors : th[t].errors[k] # NotFoundReason
                    /\ \A i \in DOMAIN a : a[i].tier = 3 => a[i].cmd[1] = th[t].exe[1]

C7_WitnessNotFound ==
    /\ Len(th[1].lookups) = 2
    /\ th[1].exe = <<>>
    /\ Raised(1, "RuntimeError")

(***************************************************************************)
(* Properties of the worker pipeline, checked under Spec (one Download     *)
(* click) and SpecClicks (several).                                        *)
(***************************************************************************)
\* frame t is in, or past, the download loop of _do_soundcloud
InBatch(t) == th[t].queries # <<>>

\* the queries whose Popen call has been made, when frame t is in the loop
Attempted(t) ==
    IF th[t].pc \in {"finish", "done"} THEN Len(th[t].queries)
    ELSE IF th[t].pc = "stream_read" THEN th[t].idx
    ELSE th[t].idx - 1

\* the queries among the first n whose launch ended in one of `bad`, in order
RECURSIVE FailedAmong(_, _, _)
FailedAmong(t, n, bad) ==
    IF n = 0 THEN <<>>
    ELSE FailedAmong(t, n - 1, bad)
         \o (IF th[t].launches[n].res \in bad THEN <<th[t].queries[n]>> ELSE <<>>)

ReportHead == "\nCould not download the following tracks:\n"

\* the lines put on the queue so far, displayed or not
Logged == {q[i] : i \in DOMAIN q}
          \cup {SubSeq(log_txt[i], 1, Len(log_txt[i]) - 1) : i \in DOMAIN log_txt}

\* the batch of frame t, with `bad` the launch results that count as a failed
\* download: launch i is the one Popen call for query i, with the command
\* built for it; missing holds the failed queries in order; and once the loop
\* has ended every query has had its launch and the report, if any query
\* failed, lists exactly the missing ones.
BatchOrder(t, bad) ==
    /\ Len(th[t].launches) = Attempted(t)
    /\ \A i \in DOMAIN th[t].launches :
        th[t].launches[i].cmd =
            <<sys_executable, "-m", "spotdl", "download", th[t].queries[i],
              "--output", th[t].out_dir, "--format", "m4a", "--bitrate", bit_var>>
    /\ th[t].missing =
         FailedAmong(t, IF th[t].pc = "stream_read" THEN th[t].idx - 1
                        ELSE Attempted(t), bad)
    /\ th[t].pc \in {"finish", "done"}
       => /\ Len(th[t].launches) = Len(th[t].queries)
          /\ \A l \in Logged :
                startswith(l, ReportHead)
                => l = ReportHead \o join("\n", th[t].missing)
          /\ th[t].missing # <<>>
             => (ReportHead \o join("\n", th[t].missing)) \in Logged

C9_ToolMissingAbortsBatch ==
    /\ \A t \in Threads :
        \A i \in DOMAIN th[t].launches :
            th[t].launches[i].res = "FileNotFoundError" => i = Len(th[t].launches)
    /\ Cardinality({i \in DOMAIN dialogs : dialogs[i].title = "SpotDL missing"}) <= 1

\* the worker threads that have been started and have not ended
Running == {t \in Threads : th[t].pc \notin {"idle", "done"}}

\* C10 (as claimed): at most one worker thread runs the pipeline at any time.
C10_SingleWorker == Cardinality(Running) <= 1

(***************************************************************************)
(* The unit tests of the helpers (TestHelpers, lines 381-394): thread 1     *)
(* calls one helper on one input and keeps what it returned.  Its frame is  *)
(* [pc, fn, args, result, again]; result and again are <<>> until set.      *)
(***************************************************************************)
\* longest URL, in characters, drawn for _sanitize_sc_url
MaxUrlLen == 4

\* the string a tuple of characters spells
RECURSIVE Spell(_)
Spell(cs) == IF Len(cs) = 0 THEN "" ELSE cs[1] \o Spell(Tail(cs))

UrlChars == {"h", "?", "#"}
UrlStrings ==
    {Spell(cs) : cs \in UNION {[1..n -> UrlChars] : n \in 0..MaxUrlLen}}
    \cup {"https://soundcloud.com/user/playlist?utm_source=clip#frag"}

\* records as test_extract passes them: a key missing or None (<<>>), empty,
\* blank, or text with and without surrounding whitespace
SampleTitles == {<<>>, <<"">>, <<" ">>, <<"Foo">>, <<"Baz">>, <<"\tBaz ">>}
SampleUploaders == {<<>>, <<"">>, <<" ">>, <<"Bar">>, <<" Bar\n">>}
SampleRecords == [title : SampleTitles, uploader : SampleUploaders]
SAMPLE_YDL_JSON ==
    [entries : {<<>>}
               \cup {<<es>> : es \in UNION {[1..n -> SampleRecords] :
                                              n \in 0..MaxEntries}}]

\* arguments of build_spotdl_cmd: query, out_dir and bitrate are any strings
SampleQueries == {"query", "Bar - Foo", "", "--user-auth"}
SampleDirs == {"/tmp", "--user-auth"}
SampleBitrates == {"128k", "320k", "--user-auth"}
BuildArgs ==
    [query : SampleQueries, out_dir : SampleDirs, bitrate : SampleBitrates,
     user_auth : BOOLEAN]

HelperCall(fn, args) ==
    [pc |-> "call", fn |-> fn, args |-> args, result |-> <<>>, again |-> <<>>]

InitHelpers ==
    /\ \E c \in {HelperCall("extract", d) : d \in SAMPLE_YDL_JSON}
                \cup {HelperCall("sanitize", u) : u \in UrlStrings}
                \cup {HelperCall("build", a) : a \in BuildArgs} :
        th = [t \in Threads |-> IF t = 1 THEN c ELSE IdleThread]
    /\ clicks = 0
    /\ started = 0
    /\ q = <<>>
    /\ log_txt = <<>>
    /\ dialogs = <<>>
    /\ progress = [running |-> FALSE, stops |-> 0]

test_extract ==
    /\ th[1].pc = "call"
    /\ th[1].fn = "extract"
    /\ th' = [th EXCEPT ![1].pc = "returned",
                        ![1].result =
                            <<extract_sc_queries_from_ydl_json(th[1].args)>>]
    /\ UNCHANGED <<clicks, started, q, log_txt, dialogs, progress>>

test_sanitize ==
    /\ th[1].pc = "call"
    /\ th[1].fn = "sanitize"
    /\ th' = [th EXCEPT ![1].pc = "returned",
                        ![1].result = <<sanitize_sc_url(th[1].args)>>]
    /\ UNCHANGED <<clicks, started, q, log_txt, dialogs, progress>>

\* the helper applied to its own result, as get_soundcloud_queries would on a
\* URL that was sanitised before
sanitize_again ==
    /\ th[1].pc = "returned"
    /\ th[1].fn = "sanitize"
    /\ th' = [th EXCEPT ![1].pc = "returned_again",
                        ![1].again = <<sanitize_sc_url(th[1].result[1])>>]
    /\ UNCHANGED <<clicks, started, q, log_txt, dialogs, progress>>

test_build ==
    /\ th[1].pc = "call"
    /\ th[1].fn = "build"
    /\ th' = [th EXCEPT ![1].pc = "returned",
                        ![1].result =
                            <<build_spotdl_cmd(th[1].args.query, th[1].args.out_dir,
                                               th[1].args.bitrate,
                                               th[1].args.user_auth)>>]
    /\ UNCHANGED <<clicks, started, q, log_txt, dialogs, progress>>

NextHelpers ==
    \/ test_extract
    \/ test_sanitize
    \/ sanitize_again
    \/ test_build

SpecHelpers == InitHelpers /\ [][NextHelpers]_vars

(***************************************************************************)
(* The helpers' contracts, stated without the operators that model them.    *)
(***************************************************************************)
Returned(fn) == th[1].fn = fn /\ th[1].pc \in {"returned", "returned_again"}

NonBlankAt(s) == {i \in 1..Len(s) : SubSeq(s, i, i) \notin Whitespace}
NonBlank(s) == NonBlankAt(s) # {}
\* s without its leading and trailing whitespace
Trimmed(s) ==
    IF ~NonBlank(s) THEN ""
    ELSE LET lo == CHOOSE i \in NonBlankAt(s) : \A j \in NonBlankAt(s) : i <= j
             hi == CHOOSE i \in NonBlankAt(s) : \A j \in NonBlankAt(s) : i >= j
         IN  SubSeq(s, lo, hi)
TextOf(opt) == IF opt = <<>> THEN "" ELSE opt[1]
HasTitle(e) == NonBlank(TextOf(e.title))
QueryFor(e) ==
    IF NonBlank(TextOf(e.uploader))
    THEN Trimmed(TextOf(e.uploader)) \o " - " \o Trimmed(TextOf(e.title))
    ELSE Trimmed(TextOf(e.title))
RecordsOf(data) == IF data.entries = <<>> THEN <<>> ELSE data.entries[1]

\* C11: _extract_sc_queries_from_ydl_json returns, in input order, one query
\* for each record whose title is non-empty after trimming: "uploader - title"
\* when the trimmed uploader is non-empty, the trimmed title alone otherwise.
\* Records with a missing, empty or blank title are skipped, and a missing or
\* empty entries list gives the empty list.
C11_ExtractQueries ==
    Returned("extract") =>
        LET kept == SelectSeq(RecordsOf(th[1].args), HasTitle)
            res  == th[1].result[1]
        IN  /\ Len(res) = Len(kept)
            /\ \A i \in 1..Len(kept) : res[i] = QueryFor(kept[i])

\* a blank-titled record skipped and both fields of the other one trimmed
C11_Witness ==
    /\ Returned("extract")
    /\ th[1].args.entries # <<>>
    /\ Len(th[1].args.entries[1]) = 2
    /\ th[1].args.entries[1][1].title = <<" ">>
    /\ th[1].result[1] = <<"Bar - Baz">>

CutsAt(s) == {i \in 1..Len(s) : SubSeq(s, i, i) \in {"?", "#"}}
\* s up to, not including, its first '?' or '#'
BeforeFirstCut(s) ==
    IF CutsAt(s) = {} THEN s
    ELSE SubSeq(s, 1, (CHOOSE i \in CutsAt(s) : \A j \in CutsAt(s) : i <= j) - 1)

\* C12: _sanitize_sc_url returns the prefix of its input up to, not including,
\* the first '?' or '#', whichever comes first (the whole input when it has
\* neither), and applying it to its own result changes nothing.
C12_SanitizePrefixIdempotent ==
    Returned("sanitize") =>
        /\ th[1].result[1] = BeforeFirstCut(th[1].args)
        /\ th[1].pc = "returned_again" => th[1].again = th[1].result

\* a fragment mark in front of a query mark, sanitised twice
C12_Witness ==
    /\ th[1].fn = "sanitize"
    /\ th[1].pc = "returned_again"
    /\ th[1].args = "h#?h"
    /\ th[1].again = <<"h">>

\* "download" query "--output" out_dir "--format" "m4a" "--bitrate" bitrate,
\* after the interpreter's "-m spotdl"
OptionsInOrder ==
    SubSeq(th[1].result[1], 4, 11) =
        <<"download", th[1].args.query, "--output", th[1].args.out_dir,
          "--format", "m4a", "--bitrate", th[1].args.bitrate>>

\* C13, as stated: the options are in order and "--user-auth" is the last
\* element exactly when the authentication flag is true.
C13_AuthLastIffFlag ==
    Returned("build") =>
        LET cmd == th[1].result[1]
        IN  /\ OptionsInOrder
            /\ (cmd[Len(cmd)] = "--user-auth") <=> th[1].args.user_auth

\* C13, amended: the options are in order; with the flag true one more
\* element, "--user-auth", follows the bitrate and is the last; with the flag
\* false the bitrate the caller gave is the last element.
C13_AuthAppendedIffFlag ==
    Returned("build") =>
        LET cmd == th[1].result[1]
        IN  /\ OptionsInOrder
            /\ IF th[1].args.user_auth
               THEN Len(cmd) = 12 /\ cmd[12] = "--user-auth"
               ELSE Len(cmd) = 11

\* built without the flag for a bitrate that reads "--user-auth"
C13_Witness ==
    /\ Returned("build")
    /\ ~th[1].args.user_auth
    /\ th[1].args.bitrate = "--user-auth"
    /\ th[1].args.query = "query"
    /\ Len(th[1].result[1]) = 11

\* C14, as stated: built with the authentication flag false, the argument
\* list has no element equal to "--user-auth".
C14_NoAuthElement ==
    (Returned("build") /\ ~th[1].args.user_auth) =>
        \A i \in 1..Len(th[1].result[1]) : th[1].result[1][i] # "--user-auth"

\* C14, amended: built with the authentication flag false, the argument list
\* has "--user-auth" only where the caller's own query, output directory or
\* bitrate is that string; nothing is appended after the bitrate.
C14_NoAuthAppended ==
    (Returned("build") /\ ~th[1].args.user_auth) =>
        LET cmd == th[1].result[1]
        IN  /\ cmd[Len(cmd)] = th[1].args.bitrate
            /\ \A i \in 1..Len(cmd) :
                cmd[i] = "--user-auth" =>
                    \/ i = 5 /\ th[1].args.query = "--user-auth"
                    \/ i = 7 /\ th[1].args.out_dir = "--user-auth"
                    \/ i = 11 /\ th[1].args.bitrate = "--user-auth"

\* built without the flag for a query that reads "--user-auth"
C14_Witness ==
    /\ Returned("build")
    /\ ~th[1].args.user_auth
    /\ th[1].args.query = "--user-auth"
    /\ th[1].args.bitrate = "320k"
    /\ th[1].result[1][5] = "--user-auth"

\* C15: every list get_soundcloud_queries returns has no empty and no
\* whitespace-only query in it.
C15_NoBlankQuery ==
    \A t \in Threads :
        th[t].pc = "gsq_return" =>
            \A i \in DOMAIN th[t].ret : NonBlank(th[t].ret[i])

\* a returned list of two queries, one with and one without an uploader
C15_Witness ==
    /\ th[1].pc = "gsq_return"
    /\ th[1].ret = <<"Bar - Baz", "Foo">>

\* attempt i of frame t got no result at all, or an info-dict that yields no
\* query (its entries missing, None, empty, or without a titled record)
NothingFound(t, i) ==
    \/ th[t].attempts[i].answer = "none"
    \/ th[t].attempts[i].answer = "info" /\ th[t].attempts[i].q = <<>>

\* C16 (as claimed): an attempt that produces no result at all, or a result
\* whose entries are missing or empty, counts as zero tracks and not as an
\* error: after a flat attempt the tier's full attempt follows, and after a
\* full attempt the tier's reason is its "returned no entries" text.
C16_NoResultIsZeroTracks ==
    \A t \in Threads :
        \A i \in DOMAIN th[t].attempts :
            NothingFound(t, i) =>
                LET a == th[t].attempts[i]
                IN  /\ a.res = "empty"
                    /\ a.flat => FullFollows(t, i)
                    /\ ~a.flat => /\ Len(th[t].errors) >= a.tier
                                  /\ th[t].errors[a.tier] = TierEmptyReason(a.tier)

(***************************************************************************)
(* Properties of the worker pipeline and of the log queue.                  *)
(***************************************************************************)
\* frame t ran _do_spotify and its download process has exited
SpotifyExited(t) ==
    /\ th[t].from = "do_spotify"
    /\ th[t].launches # <<>>
    /\ th[t].launches[Len(th[t].launches)].res \in {"0", "1"}

DoneNotice ==
    [kind |-> "showinfo", title |-> "Done", text |-> "Playlist download completed!"]

\* C17: in a Spotify run the exit code of the download process has no part in
\* the outcome.  Whatever the code, _stream returns True, nothing is listed
\* as missing, the run goes on to its end with "Finished" logged and the
\* completion notice shown as its only dialog; and the step that takes the
\* exit code leaves the same state for either code, the record of the code
\* itself set aside.
C17_ExitCodeIgnored ==
    /\ [](\A t \in Threads :
            SpotifyExited(t) =>
                /\ th[t].ok = <<TRUE>>
                /\ th[t].missing = <<>>
                /\ th[t].pc \in {"finish", "done"}
                /\ th[t].pc = "done" =>
                      /\ "Finished" \in Logged
                      /\ dialogs = <<DoneNotice>>)
    /\ [][\A t \in Threads :
            (th[t].pc = "stream_read" /\ th[t].from = "do_spotify"
             /\ th'[t].pc # "stream_read")
            => /\ [th'[t] EXCEPT !.launches = <<>>]
                    = [th[t] EXCEPT !.launches = <<>>, !.pc = "finish",
                                    !.cmd = <<>>, !.proc = <<>>, !.ok = <<TRUE>>]
               /\ UNCHANGED <<clicks, started, q, log_txt, dialogs, progress>>]_vars

\* a Spotify run that ended after its download exited with code 1
C17_Witness ==
    /\ SpotifyExited(1)
    /\ th[1].launches[1].res = "1"
    /\ th[1].pc = "done"

\* The GUI session with poll kept scheduled: Tk runs poll again every 120 ms
\* (line 296) for as long as the main loop runs.
SpecPoll == Init /\ [][Next]_vars /\ WF_vars(poll)

\* C18: the lines put on the queue by log() reach the log view through poll
\* alone, each once and in the order they were put: a step that changes the
\* log view is poll's, moving the head of the queue to the end of the view,
\* and any other step leaves the view alone and the queue as it was or with
\* lines added at its end.  With poll kept scheduled, every line put on the
\* queue is displayed in the end: the queue is emptied again and again.
C18_LogDelivery ==
    /\ [][ \/ /\ q # <<>>
              /\ log_txt' = Append(log_txt, Head(q) \o "\n")
              /\ q' = Tail(q)
              /\ th' = th
           \/ /\ log_txt' = log_txt
              /\ Len(q') >= Len(q)
              /\ SubSeq(q', 1, Len(q)) = q ]_vars
    /\ []<>(q = <<>>)

\* two lines displayed in the order the worker logged them, a third waiting
C18_Witness ==
    /\ Len(log_txt) >= 2
    /\ log_txt[2] = "Downloaded\n"
    /\ q = <<"Finished">>

\* A direct call in which every step that can be taken is taken in the end:
\* every backend call and every lookup returns.
SpecCallLive == InitCall /\ [][NextCall]_vars /\ WF_vars(NextCall)

\* the place of an attempt in the ladder: tier 1 flat is 1, tier 3 full is 6
Rank(a) == 2 * a.tier - (IF a.flat THEN 1 ELSE 0)

\* C19: within one call the attempts made are in ladder order (tier 1 flat,
\* tier 1 full, ..., tier 3 full), each (backend, mode) pair at most once, so
\* never more than six; attempts are made one after the other, each step
\* adding at most one to those made before; and when every attempt ends the
\* call returns or raises.
C19_LadderOrderAndEnd ==
    /\ [](\A t \in Threads :
            /\ Len(th[t].attempts) <= 6
            /\ \A i, j \in DOMAIN th[t].attempts :
                i < j => Rank(th[t].attempts[i]) < Rank(th[t].attempts[j]))
    /\ [][\A t \in Threads :
            /\ Len(th'[t].attempts) <= Len(th[t].attempts) + 1
            /\ SubSeq(th'[t].attempts, 1, Len(th[t].attempts)) = th[t].attempts]_vars
    /\ (th[1].pc = "gsq") ~> Finished(1)

\* all six attempts made, the last one yielding the tracks returned
C19_Witness ==
    /\ th[1].pc = "gsq_return"
    /\ Len(th[1].attempts) = 6
    /\ th[1].attempts[6].res = "tracks"

\* The worker thread of one Download click on its own, the UI thread's
\* callbacks (poll, progress.stop) left aside: no step of the worker reads
\* the log view or takes from the queue.  A started worker keeps running
\* until its target returns: every backend call, lookup and subprocess ends,
\* and the modal dialogs are dismissed.
NextWorker ==
    \/ Download
    \/ \E t \in Threads : Worker(t)

SpecLive == Init /\ [][NextWorker]_vars /\ \A t \in Threads : WF_vars(Worker(t))

\* worker t is past os.makedirs, which succeeded, and has not ended
DirMade(t) == th[t].pc \notin {"idle", "run_spotdl", "done"}

=============================================================================
